---- MODULE Spec2Model ----
(***************************************************************************)
(* Model of scripts/update_snowtams.py: the text classifier                *)
(* (is_snowtam_like), the severity scorer (severity_from_text), and the    *)
(* per-batch aggregation and change detection of build_status, run         *)
(* repeatedly against the snapshot file that main() writes.                *)
(*                                                                         *)
(* A text is a sequence of one-character strings.  Python's None is the    *)
(* empty set and a present value x is {x}.  sha1 is modelled as an         *)
(* injective function of the bytes it is given.                            *)
(***************************************************************************)
EXTENDS Integers, Sequences, FiniteSets, TLC

VARIABLES file, pc, prev, now, bi, airports_out,
          text, verdict,
          notams, agg

vars == <<file, pc, prev, now, bi, airports_out, text, verdict, notams, agg>>

runVars  == <<file, pc, prev, now, bi, airports_out>>
textVars == <<text, verdict>>
aggVars  == <<notams, agg>>

None == {}
Some(x) == {x}
TheValue(o) == CHOOSE x \in o : TRUE

-----------------------------------------------------------------------------
(* Characters and the character classes the regular expressions use.       *)

LowerLetters == <<"a","b","c","d","e","f","g","h","i","j","k","l","m",
                  "n","o","p","q","r","s","t","u","v","w","x","y","z">>
UpperLetters == <<"A","B","C","D","E","F","G","H","I","J","K","L","M",
                  "N","O","P","Q","R","S","T","U","V","W","X","Y","Z">>
Digits == <<"0","1","2","3","4","5","6","7","8","9">>

Range(s) == {s[i] : i \in DOMAIN s}

LowerSet == Range(LowerLetters)
DigitSet == Range(Digits)
WordSet  == Range(LowerLetters) \cup Range(UpperLetters) \cup Range(Digits) \cup {"_"}
SpaceSet == {" ", "\n", "\t"}
UpperOf  == [c \in LowerSet |->
               UpperLetters[CHOOSE i \in DOMAIN LowerLetters : LowerLetters[i] = c]]
ValueOf  == [c \in DigitSet |-> (CHOOSE i \in DOMAIN Digits : Digits[i] = c) - 1]

\* str.upper() / re.IGNORECASE on one ASCII character
Upper(c) == IF c \in LowerSet THEN UpperOf[c] ELSE c

\* [0-9]
IsDigit(c) == c \in DigitSet
\* int() of a one-digit string
DigitValue(c) == ValueOf[c]
\* \s
IsSpace(c) == c \in SpaceSet
\* \w
IsWordChar(c) == c \in WordSet

\* \w at position i of t; positions outside the text are not word characters
WordAt(t, i) == i \in DOMAIN t /\ IsWordChar(t[i])

\* \b between positions i-1 and i
Boundary(t, i) == WordAt(t, i - 1) # WordAt(t, i)

\* the literal w (upper case) at position i, ignoring case
LitAt(t, i, w) ==
    /\ i >= 1
    /\ i + Len(w) - 1 <= Len(t)
    /\ \A k \in DOMAIN w : Upper(t[i + k - 1]) = w[k]

\* \bw\b at position i
WholeWordAt(t, i, w) == Boundary(t, i) /\ LitAt(t, i, w) /\ Boundary(t, i + Len(w))

\* re.search(r"\bw\b", t, re.IGNORECASE)
HasWholeWord(t, w) == \E i \in DOMAIN t : WholeWordAt(t, i, w)

\* the position after the longest run of \s starting at i
RECURSIVE SkipSpace(_, _)
SkipSpace(t, i) == IF i \in DOMAIN t /\ IsSpace(t[i]) THEN SkipSpace(t, i + 1) ELSE i

\* \bw1\s+w2\b at position i
PhraseAt(t, i, w1, w2) ==
    /\ Boundary(t, i)
    /\ LitAt(t, i, w1)
    /\ SkipSpace(t, i + Len(w1)) > i + Len(w1)
    /\ LitAt(t, SkipSpace(t, i + Len(w1)), w2)
    /\ Boundary(t, SkipSpace(t, i + Len(w1)) + Len(w2))

-----------------------------------------------------------------------------
(* The words of the patterns.                                              *)

W_SNOWTAM   == <<"S","N","O","W","T","A","M">>
W_RWYCC     == <<"R","W","Y","C","C">>
W_RCC       == <<"R","C","C">>
W_RCR       == <<"R","C","R">>
W_BRAKING   == <<"B","R","A","K","I","N","G">>
W_SLUSH     == <<"S","L","U","S","H">>
W_ICE       == <<"I","C","E">>
W_SNOW      == <<"S","N","O","W">>
W_COMPACTED == <<"C","O","M","P","A","C","T","E","D">>
W_WET       == <<"W","E","T">>
W_DRY       == <<"D","R","Y">>
W_MU        == <<"M","U">>
W_CONTAMIN  == <<"C","O","N","T","A","M","I","N">>
W_RWY       == <<"R","W","Y">>
W_RUNWAY    == <<"R","U","N","W","A","Y">>
W_CLSD      == <<"C","L","S","D">>
W_CLOSED    == <<"C","L","O","S","E","D">>
W_AERODROME == <<"A","E","R","O","D","R","O","M","E">>
W_ACTION    == <<"A","C","T","I","O","N">>
W_GOOD      == <<"G","O","O","D">>
W_MEDIUM    == <<"M","E","D","I","U","M">>
W_POOR      == <<"P","O","O","R">>
W_UNUSABLE  == <<"U","N","U","S","A","B","L","E">>
W_UNSAFE    == <<"U","N","S","A","F","E">>
W_MODERATE  == <<"M","O","D","E","R","A","T","E">>

\* SNOW_HINT_RE.search(t)
SNOW_HINT_RE(t) ==
    \E i \in DOMAIN t :
        \/ \E w \in {W_SNOWTAM, W_RWYCC, W_RCR, W_BRAKING, W_SLUSH, W_ICE,
                     W_SNOW, W_MU, W_CONTAMIN} : WholeWordAt(t, i, w)
        \/ \E w \in {W_COMPACTED, W_WET, W_DRY} : PhraseAt(t, i, w, W_SNOW)

\* the widest gap of RUNWAY_CLOSED_RE: .{0,24}
CLOSED_GAP == 24

\* RUNWAY_CLOSED_RE.search(t); "." matches anything but a newline
RUNWAY_CLOSED_RE(t) ==
    \E i \in DOMAIN t :
        \/ /\ Boundary(t, i)
           /\ \E w \in {W_RWY, W_RUNWAY} :
                 /\ LitAt(t, i, w)
                 /\ \E g \in 0..CLOSED_GAP :
                       /\ i + Len(w) + g <= Len(t)
                       /\ \A k \in (i + Len(w))..(i + Len(w) + g - 1) : t[k] # "\n"
                       /\ \E v \in {W_CLSD, W_CLOSED} : WholeWordAt(t, i + Len(w) + g, v)
        \/ PhraseAt(t, i, W_AERODROME, W_CLSD)

\* BRAKING_RE at position i: the set holding group(2), empty when no match
BrakingAt(t, i) ==
    LET p == SkipSpace(t, i + Len(W_BRAKING))
        q == SkipSpace(t, p + Len(W_ACTION))
    IN  IF ~(Boundary(t, i) /\ LitAt(t, i, W_BRAKING) /\ p > i + Len(W_BRAKING))
        THEN {}
        ELSE {w \in {W_GOOD, W_MEDIUM, W_POOR} :
                \/ LitAt(t, p, w) /\ Boundary(t, p + Len(w))
                \/ /\ LitAt(t, p, W_ACTION)
                   /\ q > p + Len(W_ACTION)
                   /\ LitAt(t, q, w)
                   /\ Boundary(t, q + Len(w))}

\* the least element of a non-empty set of positions
Leftmost(hits) == CHOOSE i \in hits : \A j \in hits : i <= j

BrakingFirst(t, hits) == IF hits = {} THEN None ELSE BrakingAt(t, Leftmost(hits))

\* BRAKING_RE.search(t): group(2) of the leftmost match, None when none
BRAKING_RE(t) == BrakingFirst(t, {i \in DOMAIN t : BrakingAt(t, i) # {}})

\* the widest run of non-digits between RWYCC and its first digit: [^0-9]{0,6}
RWYCC_GAP == 6
\* the most separated digits after the first: {0,5}
RWYCC_MORE == 5

\* (?:\s*[/\s]\s*[0-9]) at position p: the position of the digit, 0 when no match.
\* The separator is a run of whitespace holding at most one slash, not empty.
NextDigitPos(t, p) ==
    LET a == SkipSpace(t, p)
        b == IF a \in DOMAIN t /\ t[a] = "/" THEN SkipSpace(t, a + 1) ELSE a
    IN  IF b > p /\ b \in DOMAIN t /\ IsDigit(t[b]) THEN b ELSE 0

\* the text of the digits matched from the digit at position p on, n more allowed
RECURSIVE DigitRun(_, _, _)
DigitRun(t, p, n) ==
    IF n = 0 \/ NextDigitPos(t, p + 1) = 0
    THEN <<t[p]>>
    ELSE <<t[p]>> \o DigitRun(t, NextDigitPos(t, p + 1), n - 1)

\* RWYCC_RE at position i: the position of the first digit, 0 when no match
RwyccAt(t, i) ==
    LET e == i + Len(W_RWYCC)
        ds == {p \in e..(e + RWYCC_GAP) :
                 /\ p \in DOMAIN t
                 /\ IsDigit(t[p])
                 /\ \A k \in e..(p - 1) : ~IsDigit(t[k])}
    IN  IF WholeWordAt(t, i, W_RWYCC) /\ ds # {} THEN CHOOSE p \in ds : TRUE ELSE 0

RwyccFirst(t, hits) ==
    IF hits = {} THEN None ELSE Some(DigitRun(t, RwyccAt(t, Leftmost(hits)), RWYCC_MORE))

\* RWYCC_RE.search(t): the digits of group(1) of the leftmost match, None when none
RWYCC_RE(t) == RwyccFirst(t, {i \in DOMAIN t : RwyccAt(t, i) # 0})

\* the largest runway condition code
RWYCC_MAX == 6

\* lines 180-185 on the digits of group(1)
RwyccValues(raw) ==
    SelectSeq([k \in DOMAIN raw |-> DigitValue(raw[k])], LAMBDA v : 0 <= v /\ v <= RWYCC_MAX)

RwyccOfMatch(m) == IF m = None THEN <<>> ELSE RwyccValues(TheValue(m))

extract_rwycc_values(t) == RwyccOfMatch(RWYCC_RE(t))

SeqMin(s) == CHOOSE m \in Range(s) : \A v \in Range(s) : m <= v

KeywordList == <<"SNOWTAM", "RWYCC", "RCR", "BRAKING", "SLUSH", "ICE", "SNOW", "MU", "CONTAMIN">>
KeywordChars == <<W_SNOWTAM, W_RWYCC, W_RCR, W_BRAKING, W_SLUSH, W_ICE, W_SNOW, W_MU, W_CONTAMIN>>

\* the keywords found, in the order of the list
RECURSIVE KeywordsFrom(_, _)
KeywordsFrom(t, k) ==
    IF k > Len(KeywordList) THEN <<>>
    ELSE (IF HasWholeWord(t, KeywordChars[k]) THEN <<KeywordList[k]>> ELSE <<>>)
         \o KeywordsFrom(t, k + 1)

BrakingName(w) ==
    IF w = W_POOR THEN "POOR" ELSE IF w = W_MEDIUM THEN "MEDIUM" ELSE "GOOD"

Evidence0 == [rwycc |-> None, braking |-> None, closed |-> FALSE, keywords |-> <<>>]

Result(sev, ev) == [sev |-> sev, ev |-> ev]

\* lines 226-231: the keyword fallback, kws the keywords found
KeywordRule(t, kws) ==
    Result(IF \E w \in {W_POOR, W_UNUSABLE, W_UNSAFE} : HasWholeWord(t, w) THEN "red"
           ELSE IF \E w \in {W_MEDIUM, W_MODERATE} : HasWholeWord(t, w) THEN "orange"
           ELSE "yellow",
           [Evidence0 EXCEPT !.keywords = kws])

\* lines 212-224: bm the match of BRAKING_RE
BrakingRule(t, bm) ==
    IF bm # None
    THEN Result(IF BrakingName(TheValue(bm)) = "POOR" THEN "red"
                ELSE IF BrakingName(TheValue(bm)) = "MEDIUM" THEN "orange"
                ELSE "yellow",
                [Evidence0 EXCEPT !.braking = Some(BrakingName(TheValue(bm)))])
    ELSE KeywordRule(t, KeywordsFrom(t, 1))

\* the rule with the first code taken for the least
RwyccRuleFirstCode(t, rwycc) ==
    IF rwycc # <<>>
    THEN Result(IF Head(rwycc) <= 1 THEN "red"
                ELSE IF Head(rwycc) <= 3 THEN "orange"
                ELSE "yellow",
                [Evidence0 EXCEPT !.rwycc = Some(rwycc)])
    ELSE BrakingRule(t, BRAKING_RE(t))

\* lines 201-211: rwycc the values of extract_rwycc_values
RwyccRule(t, rwycc) ==
    IF rwycc # <<>>
    THEN Result(IF SeqMin(rwycc) <= 1 THEN "red"
                ELSE IF SeqMin(rwycc) <= 3 THEN "orange"
                ELSE "yellow",
                [Evidence0 EXCEPT !.rwycc = Some(rwycc)])
    ELSE BrakingRule(t, BRAKING_RE(t))

\* severity_from_text(text): [sev, ev]
severity_from_text(t) ==
    IF RUNWAY_CLOSED_RE(t)
    THEN Result("red", [Evidence0 EXCEPT !.closed = TRUE])
    ELSE RwyccRule(t, extract_rwycc_values(t))

\* the context pattern of is_snowtam_like:
\* \bRWY\b|\bRUNWAY\b|\bR(?:WY)?CC\b|\bBRAKING\b|\bCONTAMIN
ContextRe(t) ==
    \E i \in DOMAIN t :
        \/ \E w \in {W_RWY, W_RUNWAY, W_RCC, W_RWYCC, W_BRAKING} : WholeWordAt(t, i, w)
        \/ Boundary(t, i) /\ LitAt(t, i, W_CONTAMIN)

\* the classifier without the demand for context
is_snowtam_like_any_hint(t) == IF t = <<>> THEN FALSE ELSE SNOW_HINT_RE(t)

is_snowtam_like(t) ==
    IF t = <<>> THEN FALSE
    ELSE IF SNOW_HINT_RE(t)
         THEN IF ContextRe(t) THEN TRUE
              ELSE IF HasWholeWord(t, W_SNOWTAM) THEN TRUE
              ELSE FALSE
         ELSE FALSE

-----------------------------------------------------------------------------
(* JSON values of the previous snapshot.  A value is a record tagged with  *)
(* its JSON type; only the shapes the code tells apart are kept: a         *)
(* mapping, null, the empty list (falsy, no .get) and a non-empty string   *)
(* (truthy, no .get).                                                      *)

JNull  == [t |-> "null"]
JList  == [t |-> "list"]
JStr   == [t |-> "str"]
JDict(m) == [t |-> "dict", m |-> m]
EmptyMap == [c \in {} |-> JNull]
IsDict(j) == j.t = "dict"
\* Python truthiness of a JSON value
Truthy(j) == IF j.t = "dict" THEN DOMAIN j.m # {} ELSE j.t = "str"

\* sha1_text(s): encode(errors="ignore") drops what UTF-8 cannot encode (a
\* lone surrogate); the digest is injective on the bytes
Surrogate == "\\ud800"
sha1_text(s) == [kind |-> "sha1", of |-> SelectSeq(s, LAMBDA c : c # Surrogate)]
NO_SNOWTAM == [kind |-> "NO_SNOWTAM"]

\* load_prev_status(): the value build_status keeps in prev
load_prev_status(f) ==
    IF f.kind = "absent" THEN JDict(EmptyMap)
    ELSE IF f.kind = "invalid" THEN JDict(EmptyMap)
    ELSE IF ~IsDict(f.top) THEN JDict(EmptyMap)
    ELSE IF "airports" \notin DOMAIN f.top.m THEN JDict(EmptyMap)
    ELSE f.top.m["airports"]

\* x or ""  /  x or {}
OrEmpty(o) == IF o = None THEN <<>> ELSE TheValue(o)

\* (n.get("icao_code") or "").strip().upper()
Strip(s) ==
    LET keep == {i \in DOMAIN s : ~IsSpace(s[i])}
    IN  IF keep = {} THEN <<>>
        ELSE SubSeq(s, CHOOSE i \in keep : \A j \in keep : i <= j,
                       CHOOSE i \in keep : \A j \in keep : i >= j)
UpperSeq(s) == [k \in DOMAIN s |-> Upper(s[k])]
NoticeCode(n) == UpperSeq(Strip(OrEmpty(n.icao_code)))

\* chunk(lst, n)
RECURSIVE chunk(_, _)
chunk(lst, n) ==
    IF lst = <<>> THEN <<>>
    ELSE IF Len(lst) <= n THEN <<lst>>
    ELSE <<SubSeq(lst, 1, n)>> \o chunk(SubSeq(lst, n + 1, Len(lst)), n)

\* by_icao[icao]: the notices of the batch's result filed under icao, in order
by_icao(ns, batch, icao) ==
    IF icao \in Range(batch) THEN SelectSeq(ns, LAMBDA n : NoticeCode(n) = icao) ELSE <<>>

NL == <<"\n">>
ItemSep == <<"\n", "\n", "-", "-", "-", "\n", "\n">>

SeverityOrder(sev) ==
    IF sev = "yellow" THEN 1 ELSE IF sev = "orange" THEN 2 ELSE IF sev = "red" THEN 3 ELSE 0

\* the state of the loop over one airport's notices
Fold0 == [snow_items |-> <<>>, worst_sev |-> "green", worst_evidence |-> None]

\* the comparison that lets a notice of equal severity replace the worst
TakesOnTie(acc, r) ==
    \/ acc.worst_sev = "green"
    \/ SeverityOrder(r.sev) >= SeverityOrder(acc.worst_sev)

\* lines 342-349: the new notice replaces the worst so far
Takes(acc, r) ==
    \/ acc.worst_sev = "green"
    \/ SeverityOrder(r.sev) > SeverityOrder(acc.worst_sev)

\* lines 341-351 for a relevant notice scored r
FoldScored(acc, raw, excerpt, desc, r) ==
    [snow_items |-> Append(acc.snow_items,
                           [raw |-> raw, excerpt |-> excerpt, description |-> desc]),
     worst_sev |-> IF Takes(acc, r) THEN r.sev ELSE acc.worst_sev,
     worst_evidence |-> IF Takes(acc, r) THEN Some(r.ev) ELSE acc.worst_evidence]

\* lines 334-351 on the fields read from the notice
FoldItem(acc, raw, excerpt, desc) ==
    IF ~is_snowtam_like(raw) THEN acc
    ELSE FoldScored(acc, raw, excerpt, desc, severity_from_text(raw \o NL \o desc))

\* (n.get("interpretation") or {}).get(key) or ""
InterpField(interp, key) == IF interp = None THEN <<>> ELSE OrEmpty(TheValue(interp)[key])

\* one iteration of the loop over by_icao[icao] (lines 332-351)
FoldStep(acc, n) ==
    FoldItem(acc, OrEmpty(n.icao_message),
             InterpField(n.interpretation, "excerpt"),
             InterpField(n.interpretation, "description"))

RECURSIVE FoldNotices(_, _)
FoldNotices(acc, ns) ==
    IF ns = <<>> THEN acc ELSE FoldNotices(FoldStep(acc, Head(ns)), Tail(ns))

\* "\n\n---\n\n".join(raw + "\n" + excerpt + "\n" + description ...)
RECURSIVE Blob(_)
Blob(items) ==
    IF items = <<>> THEN <<>>
    ELSE LET it == Head(items)
             one == it.raw \o NL \o it.excerpt \o NL \o it.description
         IN  IF Len(items) = 1 THEN one ELSE one \o ItemSep \o Blob(Tail(items))

\* (prev.get(icao) or {}): the mapping whose fields the success path reads
PrevEntry(p, icao) == IF icao \in DOMAIN p.m THEN p.m[icao] ELSE JNull

\* .get(key) of a per-airport mapping: None when the key is missing
Field(entry, key) == IF key \in DOMAIN entry.m THEN entry.m[key] ELSE None

\* line 360 / 363 raise: prev has no .get, or the airport's entry is truthy
\* and has none
OkPathRaises(p, icao) ==
    \/ ~IsDict(p)
    \/ Truthy(PrevEntry(p, icao)) /\ ~IsDict(PrevEntry(p, icao))

\* lines 311 / 314 raise: prev has no .get, or the airport has an entry
\* (prev.get(icao, {}) returns it) that has none
FailPathRaises(p, icao) ==
    \/ ~IsDict(p)
    \/ icao \in DOMAIN p.m /\ ~IsDict(p.m[icao])

\* the hash and last_change_utc read through (prev.get(icao) or {})
OldField(p, icao, key) ==
    IF IsDict(PrevEntry(p, icao)) THEN Field(PrevEntry(p, icao), key) ELSE None

\* changed without the test for a missing fingerprint
IsChangedAnyOld(old_hash, new_hash) == old_hash # Some(new_hash)

\* changed = (old_hash is not None and old_hash != new_hash)
IsChanged(old_hash, new_hash) == old_hash # None /\ old_hash # Some(new_hash)

\* the record with last_change_utc stamped on every run
AssembleStamped(acc, new_hash, old_hash, old_change, t) ==
    [loaded |-> TRUE,
     has_snowtam |-> Len(acc.snow_items) > 0,
     severity |-> IF Len(acc.snow_items) > 0 THEN acc.worst_sev ELSE "green",
     changed |-> IsChanged(old_hash, new_hash),
     last_change_utc |-> Some(t),
     error |-> None,
     items |-> acc.snow_items,
     evidence |-> acc.worst_evidence,
     hash |-> Some(new_hash)]

\* lines 362-377 on the values computed before
Assemble(acc, new_hash, old_hash, old_change, t) ==
    [loaded |-> TRUE,
     has_snowtam |-> Len(acc.snow_items) > 0,
     severity |-> IF Len(acc.snow_items) > 0 THEN acc.worst_sev ELSE "green",
     changed |-> IsChanged(old_hash, new_hash),
     last_change_utc |-> IF IsChanged(old_hash, new_hash) THEN Some(t) ELSE old_change,
     error |-> None,
     items |-> acc.snow_items,
     evidence |-> acc.worst_evidence,
     hash |-> Some(new_hash)]

\* lines 358-359
NewHash(items) == IF Len(items) > 0 THEN sha1_text(Blob(items)) ELSE NO_SNOWTAM

\* lines 353-377 after the loop over the airport's notices
RecordOf(acc, old_hash, old_change, t) ==
    Assemble(acc, NewHash(acc.snow_items), old_hash, old_change, t)

\* lines 327-377: the record of one airport of a fetched batch
OkRecord(p, icao, ns, t) ==
    RecordOf(FoldNotices(Fold0, ns),
             OldField(p, icao, "hash"), OldField(p, icao, "last_change_utc"), t)

\* prev.get(icao, {})
PrevEntryOrEmpty(p, icao) == IF icao \in DOMAIN p.m THEN p.m[icao] ELSE JDict(EmptyMap)

\* the failure record that starts over instead of carrying the fingerprint
FailRecordNoHash(p, icao, err) ==
    [loaded |-> TRUE,
     has_snowtam |-> FALSE,
     severity |-> "gray",
     changed |-> FALSE,
     last_change_utc |-> Field(PrevEntryOrEmpty(p, icao), "last_change_utc"),
     error |-> Some(err),
     items |-> <<>>,
     hash |-> None]

\* the failure record with the severity of an airport without notices
FailRecordGreen(p, icao, err) ==
    [loaded |-> TRUE,
     has_snowtam |-> FALSE,
     severity |-> "green",
     changed |-> FALSE,
     last_change_utc |-> Field(PrevEntryOrEmpty(p, icao), "last_change_utc"),
     error |-> Some(err),
     items |-> <<>>,
     hash |-> Field(PrevEntryOrEmpty(p, icao), "hash")]

\* lines 306-315: the record of one airport of a batch whose fetch raised
FailRecord(p, icao, err) ==
    [loaded |-> TRUE,
     has_snowtam |-> FALSE,
     severity |-> "gray",
     changed |-> FALSE,
     last_change_utc |-> Field(PrevEntryOrEmpty(p, icao), "last_change_utc"),
     error |-> Some(err),
     items |-> <<>>,
     hash |-> Field(PrevEntryOrEmpty(p, icao), "hash")]

\* a record as json.dump writes it and json.load reads it back
AsJson(rec) == JDict(rec)

-----------------------------------------------------------------------------
(* Runs of main(): build_status over the airport list, batch by batch,     *)
(* then the write of the snapshot the next run loads.                      *)

\* bounds of the model
BATCH_SIZE  == 1
MaxNotams   == 1
MaxRuns     == 3

LHBP == <<"L","H","B","P">>
EGLL == <<"E","G","L","L">>

\* read_airport_list(): four-character codes, upper case, no duplicates
icao_list == <<LHBP, EGLL>>
batches == chunk(icao_list, BATCH_SIZE)

T_SNOWTAM  == <<"S","N","O","W","T","A","M">>
T_SNOW     == <<"S","N","O","W">>
T_CLOSED   == <<"R","W","Y"," ","C","L","S","D"," ","S","N","O","W">>

Interp(e, d) == Some([excerpt |-> Some(e), description |-> Some(d)])

\* what a notice of a run carries besides its airport
RunContents ==
    { [icao_message |-> Some(T_SNOWTAM),
       interpretation |-> Interp(<<"x","\n","P","O","O","R">>, <<"z">>)],
      [icao_message |-> Some(T_SNOWTAM),
       interpretation |-> Interp(<<"x">>, <<"P","O","O","R","\n","z">>)],
      [icao_message |-> Some(T_CLOSED),  interpretation |-> None],
      [icao_message |-> Some(T_SNOW),    interpretation |-> None] }

WithCode(c, code) ==
    [icao_code |-> code, icao_message |-> c.icao_message, interpretation |-> c.interpretation]

\* sequences over S of length at most n
RECURSIVE SeqsUpTo(_, _)
SeqsUpTo(S, n) ==
    IF n = 0 THEN {<<>>}
    ELSE LET shorter == SeqsUpTo(S, n - 1)
         IN  shorter \cup {Append(q, x) : q \in {r \in shorter : Len(r) = n - 1}, x \in S}

\* what fetch_notams_for_batch can return for a batch
FetchResults(batch) ==
    SeqsUpTo({WithCode(c, Some(code)) : c \in RunContents, code \in Range(batch)}
             \cup {WithCode(c, None) : c \in {x \in RunContents : x.interpretation = None}},
             MaxNotams)

\* the batch the loop is at, none once it is over
PendingBatch == IF bi \in DOMAIN batches THEN batches[bi] ELSE <<>>

\* f"{type(e).__name__}: {e}"
ErrMsgs == {"RuntimeError: Notamify returned 401 Unauthorized. Check NOTAMIFY_API_KEY secret/header."}

\* the persisted file when a run starts for the first time: missing,
\* unreadable, or JSON of any shape
MalformedEntries == {JNull, JList, JStr}
InitFiles ==
    {[kind |-> "absent"], [kind |-> "invalid"]}
    \cup {[kind |-> "json", top |-> j] : j \in {JList, JDict(EmptyMap)}}
    \cup {[kind |-> "json", top |-> JDict([airports |-> j])] : j \in {JNull, JList, JStr}}
    \cup {[kind |-> "json", top |-> JDict([airports |-> JDict(m)])] :
            m \in UNION {[D -> MalformedEntries] : D \in SUBSET Range(icao_list)}}

RunInit ==
    /\ file \in InitFiles
    /\ pc = "idle"
    /\ prev = JDict(EmptyMap)
    /\ now = 0
    /\ bi = 1
    /\ airports_out = EmptyMap

\* build_status lines 286-297
StartRun ==
    /\ pc \in {"idle", "aborted"}
    /\ now < MaxRuns
    /\ prev' = load_prev_status(file)
    /\ now' = now + 1
    /\ airports_out' = EmptyMap
    /\ bi' = 1
    /\ pc' = "batch"
    /\ UNCHANGED <<file, textVars, aggVars>>

\* one iteration of the loop over the batches whose fetch raises (lines 303-318);
\* an exception raised in the handler leaves build_status and ends the process
BatchFail(err) ==
    /\ pc = "batch"
    /\ bi <= Len(batches)
    /\ IF \E icao \in Range(batches[bi]) : FailPathRaises(prev, icao)
       THEN /\ pc' = "aborted"
            /\ UNCHANGED <<bi, airports_out>>
       ELSE /\ airports_out' = [icao \in Range(batches[bi]) |-> FailRecord(prev, icao, err)]
                                  @@ airports_out
            /\ bi' = bi + 1
            /\ pc' = pc
    /\ UNCHANGED <<file, prev, now, textVars, aggVars>>

\* one iteration of the loop over the batches whose fetch returns ns (lines 320-379)
BatchOk(ns) ==
    /\ pc = "batch"
    /\ bi <= Len(batches)
    /\ IF \E icao \in Range(batches[bi]) : OkPathRaises(prev, icao)
       THEN /\ pc' = "aborted"
            /\ UNCHANGED <<bi, airports_out>>
       ELSE /\ airports_out' =
                  [icao \in Range(batches[bi]) |->
                      OkRecord(prev, icao, by_icao(ns, batches[bi], icao), now)]
                  @@ airports_out
            /\ bi' = bi + 1
            /\ pc' = pc
    /\ UNCHANGED <<file, prev, now, textVars, aggVars>>

\* build_status returns and main() writes the snapshot (lines 381-408)
FinishRun ==
    /\ pc = "batch"
    /\ bi > Len(batches)
    /\ file' = [kind |-> "json",
                top |-> JDict([generated_at_utc |-> Some(now),
                               airports |-> JDict([c \in DOMAIN airports_out |->
                                                      AsJson(airports_out[c])])])]
    /\ pc' = "idle"
    /\ UNCHANGED <<prev, now, bi, airports_out, textVars, aggVars>>

-----------------------------------------------------------------------------
(* The scorer and the classifier on their own: a text is put together from *)
(* pieces, then classified, scored, or aggregated as the message of one    *)
(* notice of an airport.                                                   *)

MaxPieces == 3

Lexicon ==
    { <<"S","N","O","W">>,
      <<"T","A","M">>,
      <<"R","W","Y">>,
      <<"C","C">>,
      <<" ","7">>,
      <<" ","5","/","3">>,
      <<" ","C","L","S","D">>,
      <<"B","R","A","K","I","N","G">>,
      <<" ","p","o","o","r">>,
      <<" ","C","O","N","T","A","M","I","N","A","T","E","D">> }

X_SCENARIO == <<"S","N","O","W","T","A","M"," ","0","1","2","3"," ","R","W",
                "Y","C","C"," ","5","/","5","/","4"," ","B","R","A","K","I",
                "N","G"," ","A","C","T","I","O","N"," ","G","O","O","D">>
X_CLOSED_WEF == <<"R","W","Y"," ","1","4","/","3","2"," ","C","L","S","D",
                  " ","W","E","F"," ","2","0","2","4","-","0","1","-","0",
                  "1">>
X_RWY09 == <<"R","W","Y"," ","0","9"," ","C","L","S","D">>
X_AERODROME == <<"A","E","R","O","D","R","O","M","E"," ","C","L","S","D">>
X_CLOSED_AND_CODES == <<"R","U","N","W","A","Y"," ","2","7"," ","C","L","O",
                        "S","E","D"," ","R","W","Y","C","C"," ","5","/","5",
                        " ","B","R","A","K","I","N","G"," ","P","O","O",
                        "R">>
X_CODES_RED == <<"R","W","Y","C","C"," ","6","/","2","/","0"," ","B","R",
                 "A","K","I","N","G"," ","G","O","O","D">>
X_OUT_OF_RANGE == <<"R","W","Y","C","C"," ","7","/","8"," ","b","r","a","k",
                    "i","n","g"," ","a","c","t","i","o","n"," ","m","e","d",
                    "i","u","m">>
X_NEWLINE == <<"R","W","Y"," ","0","9","\n","C","L","S","D"," ","W","E","T",
               " ","S","N","O","W">>
X_PLACE == <<"S","N","O","W"," ","H","I","L","L"," ","I","C","E"," ","M",
             "O","D","E","R","A","T","E">>
Examples ==
    {X_SCENARIO, X_CLOSED_WEF, X_RWY09, X_AERODROME, X_CLOSED_AND_CODES,
     X_CODES_RED, X_OUT_OF_RANGE, X_NEWLINE, X_PLACE}

RECURSIVE Flat(_)
Flat(ps) == IF ps = <<>> THEN <<>> ELSE Head(ps) \o Flat(Tail(ps))

Notice(code, msg, interp) ==
    [icao_code |-> code, icao_message |-> msg, interpretation |-> interp]

\* a relevant notice of the same airport, fetched before or after the text's
RefNotice == Notice(Some(LHBP), Some(T_CLOSED), None)

TextInit ==
    /\ text \in {<<>>} \cup {<<x>> : x \in Examples}
    /\ verdict = None

AppendPiece(p) ==
    /\ verdict = None
    /\ Len(text) < MaxPieces
    /\ IF text = <<>> THEN TRUE ELSE Head(text) \in Lexicon
    /\ text' = Append(text, p)
    /\ UNCHANGED <<verdict, runVars, aggVars>>

\* is_snowtam_like(text)
Classify ==
    /\ verdict = None
    /\ verdict' = Some([op |-> "classify", like |-> is_snowtam_like(Flat(text))])
    /\ UNCHANGED <<text, runVars, aggVars>>

\* severity_from_text(text)
Score ==
    /\ verdict = None
    /\ verdict' = Some([op |-> "score", score |-> severity_from_text(Flat(text))])
    /\ UNCHANGED <<text, runVars, aggVars>>

\* lines 321-377 for the one airport of a batch whose fetch returned a notice
\* with this text (or no text at all), alone or beside another notice
AggregateText(before, after, msg) ==
    /\ verdict = None
    /\ IF msg = None THEN text = <<>> ELSE msg = Some(Flat(text))
    /\ verdict' = Some([op |-> "aggregate", before |-> before, after |-> after,
                        rec |-> OkRecord(JDict(EmptyMap), LHBP,
                                         by_icao(before \o <<Notice(Some(LHBP), msg, None)>> \o after,
                                                 <<LHBP>>, LHBP),
                                         1)])
    /\ UNCHANGED <<text, runVars, aggVars>>

TextNext ==
    \/ \E p \in Lexicon : AppendPiece(p)
    \/ Classify
    \/ Score
    \/ \E around \in {<<<<>>, <<>>>>, <<<<RefNotice>>, <<>>>>, <<<<>>, <<RefNotice>>>>},
          msg \in {None, Some(Flat(text))} : AggregateText(around[1], around[2], msg)

-----------------------------------------------------------------------------
(* The aggregation of one airport in depth: the fetch of a one-airport     *)
(* batch returns up to MaxAggNotams notices.                               *)

MaxAggNotams == 3

T_RWYCC5 == <<"R","W","Y","C","C"," ","5">>
T_RWYCC3 == <<"R","W","Y","C","C"," ","3">>
T_RWYCC0 == <<"R","W","Y","C","C"," ","0">>
T_BRAKING_MEDIUM == <<"B","R","A","K","I","N","G"," ","M","E","D","I","U",
                      "M">>

AggNotices ==
    { Notice(Some(LHBP), Some(T_SNOWTAM), Interp(<<"x">>, <<"y">>)),
      Notice(Some(LHBP), Some(T_SNOWTAM), Interp(<<"x">>, W_POOR)),
      Notice(Some(LHBP), Some(T_RWYCC5), None),
      Notice(Some(<<" ","l","h","b","p","\n">>), Some(T_RWYCC3), None),
      Notice(Some(LHBP), Some(T_BRAKING_MEDIUM), None),
      Notice(Some(LHBP), Some(T_CLOSED), None),
      Notice(Some(LHBP), Some(T_RWYCC0), None),
      Notice(Some(LHBP), Some(T_SNOW), None),
      Notice(Some(EGLL), Some(T_RWYCC0), None),
      Notice(None, Some(T_CLOSED), None) }

AggInit == notams = <<>> /\ agg = None

\* the fetch returns one more notice
AddNotice(n) ==
    /\ agg = None
    /\ Len(notams) < MaxAggNotams
    /\ notams' = Append(notams, n)
    /\ UNCHANGED <<agg, runVars, textVars>>

\* lines 321-377 for the batch <<LHBP>> on a first run
Aggregate ==
    /\ agg = None
    /\ agg' = Some(OkRecord(JDict(EmptyMap), LHBP, by_icao(notams, <<LHBP>>, LHBP), 1))
    /\ UNCHANGED <<notams, runVars, textVars>>

AggNext ==
    \/ \E n \in AggNotices : AddNotice(n)
    \/ Aggregate

-----------------------------------------------------------------------------

TextIdle == text = <<>> /\ verdict = None
AggIdle  == notams = <<>> /\ agg = None
RunIdle  ==
    /\ file = [kind |-> "absent"]
    /\ pc = "idle"
    /\ prev = JDict(EmptyMap)
    /\ now = 0
    /\ bi = 1
    /\ airports_out = EmptyMap

Init == RunInit /\ TextIdle /\ AggIdle

Next ==
    \/ StartRun
    \/ \E err \in ErrMsgs : BatchFail(err)
    \/ \E ns \in FetchResults(PendingBatch) : BatchOk(ns)
    \/ FinishRun

\* runs of main()
Spec == Init /\ [][Next]_vars

\* the classifier and the scorer on texts
InitText == TextInit /\ RunIdle /\ AggIdle

SpecText == InitText /\ [][TextNext]_vars

\* the aggregation of one airport
InitAgg == AggInit /\ RunIdle /\ TextIdle

SpecAgg == InitAgg /\ [][AggNext]_vars

-----------------------------------------------------------------------------
(* What the persisted snapshot holds, read from the file as written.       *)

StoredAirports ==
    IF file.kind # "json" THEN EmptyMap
    ELSE IF file.top.t # "dict" THEN EmptyMap
    ELSE IF "airports" \notin DOMAIN file.top.m THEN EmptyMap
    ELSE IF file.top.m.airports.t # "dict" THEN EmptyMap
    ELSE file.top.m.airports.m

HasStoredRecord(a) ==
    IF a \in DOMAIN StoredAirports THEN StoredAirports[a].t = "dict" ELSE FALSE

StoredValue(a, key) ==
    IF ~HasStoredRecord(a) THEN None
    ELSE IF key \notin DOMAIN StoredAirports[a].m THEN None
    ELSE StoredAirports[a].m[key]

Emitted == IF pc = "batch" THEN DOMAIN airports_out ELSE {}
Fetched(a) == airports_out[a].error = None

-----------------------------------------------------------------------------
\* C1: for every airport of a fetched batch, changed is true exactly when the
\* previous snapshot holds a non-null fingerprint for the airport that differs
\* from the new one; with no prior fingerprint changed is false.
C1_ChangedIffFingerprintDiffers ==
    \A a \in Emitted :
        Fetched(a) =>
            airports_out[a].changed =
                (StoredValue(a, "hash") # None /\ StoredValue(a, "hash") # airports_out[a].hash)

\* a run in which one airport changed and another, never fingerprinted
\* before, is first seen with relevant notices
C1_Witness ==
    \E a \in Emitted, b \in Emitted :
        /\ Fetched(a) /\ airports_out[a].changed
        /\ Fetched(b) /\ StoredValue(b, "hash") = None /\ HasStoredRecord(b)
        /\ airports_out[b].has_snowtam /\ ~airports_out[b].changed

\* C2: in every record, last_change_utc is the run's timestamp when changed is
\* true and the previous snapshot's last_change_utc (null when none) otherwise;
\* from one snapshot to the next it takes a new value only with changed true.
C2_Emitted ==
    \A a \in Emitted :
        airports_out[a].last_change_utc =
            IF airports_out[a].changed THEN Some(now) ELSE StoredValue(a, "last_change_utc")

C2_Written ==
    file' # file =>
        \A a \in DOMAIN airports_out :
            StoredValue(a, "last_change_utc")' # StoredValue(a, "last_change_utc")
                => StoredValue(a, "changed")' = TRUE

C2_LastChangeOnlyWhenChanged == []C2_Emitted /\ [][C2_Written]_vars

\* a record that carries an earlier run's change time forward, beside one of a
\* failed fetch that does the same
C2_Witness ==
    \E a \in Emitted, b \in Emitted :
        /\ Fetched(a) /\ ~airports_out[a].changed
        /\ airports_out[a].last_change_utc # None
        /\ airports_out[a].last_change_utc # Some(now)
        /\ ~Fetched(b) /\ airports_out[b].last_change_utc # None

\* C3: a step of a batch whose fetch raises gives every airport of the batch a
\* record with loaded, gray, not changed, an error message and the previous
\* snapshot's hash and last_change_utc, does not abort the run, and leaves the
\* other batches their records and their turn.
C3_Step ==
    (\E err \in ErrMsgs : BatchFail(err))
    => /\ pc' = "batch"
       /\ bi' = bi + 1
       /\ \A a \in DOMAIN airports_out : airports_out'[a] = airports_out[a]
       /\ \A a \in Range(batches[bi]) :
             /\ airports_out'[a].loaded
             /\ airports_out'[a].severity = "gray"
             /\ ~airports_out'[a].changed
             /\ airports_out'[a].error # None
             /\ airports_out'[a].items = <<>>
             /\ airports_out'[a].hash = StoredValue(a, "hash")
             /\ airports_out'[a].last_change_utc = StoredValue(a, "last_change_utc")

C3_FetchFailureDegrades == [][C3_Step]_vars

\* C4 as stated: severity is green whenever has_snowtam is false.
C4_GreenWhenNoSnowtam ==
    \A a \in Emitted : ~airports_out[a].has_snowtam => airports_out[a].severity = "green"

\* C4 as amended: in the record of a fetched batch severity is green whenever
\* has_snowtam is false; the record of a batch whose fetch raised has
\* has_snowtam false and severity gray.
C4_GreenOrGray ==
    /\ \A a \in Emitted :
          /\ ~airports_out[a].has_snowtam =>
                airports_out[a].severity = IF Fetched(a) THEN "green" ELSE "gray"
          /\ ~Fetched(a) => ~airports_out[a].has_snowtam
    /\ \A a \in DOMAIN StoredAirports :
          HasStoredRecord(a) =>
             (~StoredValue(a, "has_snowtam") =>
                 StoredValue(a, "severity") =
                     IF StoredValue(a, "error") = None THEN "green" ELSE "gray")

\* a run that has a green record without relevant notices, a gray one, and a
\* record with relevant notices
C4_Witness ==
    /\ \E a \in Emitted : Fetched(a) /\ ~airports_out[a].has_snowtam
    /\ \E a \in Emitted : ~Fetched(a)
    /\ \E a \in DOMAIN StoredAirports :
          HasStoredRecord(a) /\ StoredValue(a, "has_snowtam") /\ StoredValue(a, "severity") = "red"

\* C5: when the relevant notices of an airport (the list of raw, excerpt,
\* description triples) differ between two fetched runs, the second run
\* reports changed = true and last_change_utc = its own timestamp.
C5_ContentChangeDetected ==
    \A a \in Emitted :
        (/\ Fetched(a)
         /\ HasStoredRecord(a)
         /\ StoredValue(a, "error") = None
         /\ StoredValue(a, "items") # airports_out[a].items)
        => /\ airports_out[a].changed
           /\ airports_out[a].last_change_utc = Some(now)

\* C6: a previous snapshot that is unreadable or of the wrong shape counts as
\* an empty mapping and is never fatal: the run does not abort and every
\* record is a first observation (changed false, nothing carried forward).
MalformedFile ==
    /\ file.kind # "absent"
    /\ \/ file.kind = "invalid"
       \/ file.top.t # "dict"
       \/ IF "airports" \in DOMAIN file.top.m
          THEN \/ file.top.m.airports.t # "dict"
               \/ \E a \in DOMAIN file.top.m.airports.m : file.top.m.airports.m[a].t # "dict"
          ELSE FALSE

C6_MalformedPrevIsEmpty ==
    MalformedFile =>
        /\ pc # "aborted"
        /\ \A a \in Emitted :
              ~HasStoredRecord(a) =>
                 /\ ~airports_out[a].changed
                 /\ airports_out[a].last_change_utc = None
                 /\ ~Fetched(a) => airports_out[a].hash = None

-----------------------------------------------------------------------------
(* The claims about the scorer and the classifier, stated on the words of  *)
(* the text: the maximal runs of word characters, in upper case.           *)

WordEnd(t, i) ==
    CHOOSE j \in i..Len(t) :
        /\ \A k \in i..j : IsWordChar(t[k])
        /\ j = Len(t) \/ ~IsWordChar(t[j + 1])

WordsOf(t) ==
    {UpperSeq(SubSeq(t, i, WordEnd(t, i))) :
        i \in {k \in DOMAIN t : IsWordChar(t[k]) /\ (k = 1 \/ ~IsWordChar(t[k - 1]))}}

Vocabulary == {W_SNOWTAM, W_RWYCC, W_RCR, W_BRAKING, W_SLUSH, W_ICE, W_SNOW, W_MU, W_CONTAMIN}
ContextWords == {W_RWY, W_RUNWAY, W_RCC, W_RWYCC, W_BRAKING}

HasVocabulary(t) == WordsOf(t) \cap Vocabulary # {}
HasContext(t) ==
    \E w \in WordsOf(t) :
        \/ w \in ContextWords
        \/ Len(w) >= Len(W_CONTAMIN) /\ SubSeq(w, 1, Len(W_CONTAMIN)) = W_CONTAMIN
MayBeRelevant(t) == HasVocabulary(t) /\ (HasContext(t) \/ W_SNOWTAM \in WordsOf(t))

Scored == verdict # None /\ TheValue(verdict).op = "score"
TheScore == TheValue(verdict).score
Classified == verdict # None /\ TheValue(verdict).op = "classify"
Aggregated == verdict # None /\ TheValue(verdict).op = "aggregate"

\* the severity of a least runway condition code
Band(mn) == IF mn \in {0, 1} THEN "red" ELSE IF mn \in {2, 3} THEN "orange" ELSE "yellow"

FirstRule(t) ==
    IF RUNWAY_CLOSED_RE(t) THEN "closed"
    ELSE IF extract_rwycc_values(t) # <<>> THEN "rwycc"
    ELSE IF BRAKING_RE(t) # None THEN "braking"
    ELSE "keywords"

\* C7: severity_from_text returns the outcome of the first rule that matches:
\* closure gives red with closed set; else the codes in 0..6 give the severity
\* of their least with the whole list as evidence; else the braking word gives
\* POOR red, MEDIUM orange, GOOD yellow; else the keyword fallback gives red,
\* orange or yellow; never green.  The scenario text gives yellow, [5,5,4].
C7_FirstRuleWins ==
    Scored =>
        /\ TheScore.sev \in {"red", "orange", "yellow"}
        /\ FirstRule(Flat(text)) = "closed" =>
              TheScore = [sev |-> "red",
                          ev |-> [rwycc |-> None, braking |-> None, closed |-> TRUE,
                                  keywords |-> <<>>]]
        /\ FirstRule(Flat(text)) = "rwycc" =>
              /\ TheScore.ev.rwycc = Some(extract_rwycc_values(Flat(text)))
              /\ Range(extract_rwycc_values(Flat(text))) \subseteq 0..6
              /\ \E mn \in Range(extract_rwycc_values(Flat(text))) :
                    /\ \A v \in Range(extract_rwycc_values(Flat(text))) : mn <= v
                    /\ TheScore.sev = Band(mn)
              /\ ~TheScore.ev.closed /\ TheScore.ev.braking = None
        /\ FirstRule(Flat(text)) = "braking" =>
              /\ TheScore.ev.braking \in {Some("POOR"), Some("MEDIUM"), Some("GOOD")}
              /\ TheScore.sev = IF TheScore.ev.braking = Some("POOR") THEN "red"
                                ELSE IF TheScore.ev.braking = Some("MEDIUM") THEN "orange"
                                ELSE "yellow"
              /\ ~TheScore.ev.closed /\ TheScore.ev.rwycc = None
        /\ FirstRule(Flat(text)) = "keywords" =>
              /\ TheScore.ev.rwycc = None /\ TheScore.ev.braking = None /\ ~TheScore.ev.closed
              /\ Range(TheScore.ev.keywords) =
                    {KeywordList[k] : k \in {j \in DOMAIN KeywordList :
                                               KeywordChars[j] \in WordsOf(Flat(text))}}
              /\ TheScore.sev =
                    IF WordsOf(Flat(text)) \cap {W_POOR, W_UNUSABLE, W_UNSAFE} # {} THEN "red"
                    ELSE IF WordsOf(Flat(text)) \cap {W_MEDIUM, W_MODERATE} # {} THEN "orange"
                    ELSE "yellow"
        /\ text = <<X_SCENARIO>> =>
              TheScore.sev = "yellow" /\ TheScore.ev.rwycc = Some(<<5, 5, 4>>)

\* the scenario text scored
C7_Witness ==
    /\ Scored
    /\ text = <<X_SCENARIO>>
    /\ TheScore.ev.rwycc = Some(<<5, 5, 4>>)

\* C8: is_snowtam_like is true only of a text that has a word of the
\* vocabulary and a context marker or the word SNOWTAM; a text with SNOW but
\* no marker and no SNOWTAM, and an empty or absent text, is not relevant and
\* leaves the airport's record what it is without the notice.
C8_RelevantOnlyWithContext ==
    /\ Classified =>
          /\ TheValue(verdict).like => MayBeRelevant(Flat(text))
          /\ (W_SNOW \in WordsOf(Flat(text)) /\ ~HasContext(Flat(text))
                /\ W_SNOWTAM \notin WordsOf(Flat(text))) => ~TheValue(verdict).like
          /\ text = <<>> => ~TheValue(verdict).like
    /\ Aggregated =>
          (~MayBeRelevant(Flat(text)) =>
              TheValue(verdict).rec =
                 OkRecord(JDict(EmptyMap), LHBP,
                          TheValue(verdict).before \o TheValue(verdict).after, 1))

\* a notice whose text has SNOW and no context, fetched beside a relevant one
C8_Witness ==
    /\ Aggregated
    /\ W_SNOW \in WordsOf(Flat(text))
    /\ ~HasContext(Flat(text))
    /\ TheValue(verdict).before # <<>>
    /\ Len(TheValue(verdict).rec.items) = 1

-----------------------------------------------------------------------------
\* the relevant notices of the aggregated airport, in fetch order
RelevantOf(ns) ==
    SelectSeq(ns, LAMBDA n : NoticeCode(n) = LHBP /\ is_snowtam_like(OrEmpty(n.icao_message)))
ScoreOf(n) ==
    severity_from_text(OrEmpty(n.icao_message) \o NL
                       \o InterpField(n.interpretation, "description"))
Rank(sev) == CHOOSE r \in 0..3 : <<"green", "yellow", "orange", "red">>[r + 1] = sev

\* C9: with at least one relevant notice, the record's severity is the
\* greatest of the notices' severities on green < yellow < orange < red, and
\* its evidence is that of the first notice in fetch order that reaches it.
C9_WorstOfFirstEvidence ==
    (agg # None /\ RelevantOf(notams) # <<>>) =>
        \E k \in DOMAIN RelevantOf(notams) :
            /\ \A j \in DOMAIN RelevantOf(notams) :
                  Rank(ScoreOf(RelevantOf(notams)[j]).sev) <= Rank(ScoreOf(RelevantOf(notams)[k]).sev)
            /\ \A j \in 1..(k - 1) :
                  Rank(ScoreOf(RelevantOf(notams)[j]).sev) < Rank(ScoreOf(RelevantOf(notams)[k]).sev)
            /\ TheValue(agg).severity = ScoreOf(RelevantOf(notams)[k]).sev
            /\ TheValue(agg).evidence = Some(ScoreOf(RelevantOf(notams)[k]).ev)

\* notices scored yellow, red, orange in this order give red
C9_Witness ==
    /\ agg # None
    /\ Len(RelevantOf(notams)) = 3
    /\ [k \in 1..3 |-> ScoreOf(RelevantOf(notams)[k]).sev] = <<"yellow", "red", "orange">>
    /\ TheValue(agg).severity = "red"

-----------------------------------------------------------------------------
\* C10: from one snapshot to the next, the record of a failed fetch keeps the
\* stored fingerprint and last_change_utc, so the record of a fetched batch
\* is compared with the fingerprint of the last fetched run: changed is true
\* exactly when that fingerprint exists and differs, and is false when the
\* airport was never fetched before.
C10_Written ==
    file' # file =>
        \A a \in DOMAIN airports_out :
            IF StoredValue(a, "error")' # None
            THEN /\ StoredValue(a, "hash")' = StoredValue(a, "hash")
                 /\ StoredValue(a, "last_change_utc")' = StoredValue(a, "last_change_utc")
                 /\ StoredValue(a, "changed")' = FALSE
            ELSE /\ StoredValue(a, "hash")' # None
                 /\ StoredValue(a, "changed")' =
                       (StoredValue(a, "hash") # None
                          /\ StoredValue(a, "hash") # StoredValue(a, "hash")')
                 /\ StoredValue(a, "hash") = None => StoredValue(a, "changed")' = FALSE

C10_FailedRunsKeepFingerprint == [][C10_Written]_vars

\* a fetched record that changed against a fingerprint carried through a
\* failed run, beside an airport first fetched after a failed first run
C10_Witness ==
    \E a \in Emitted, b \in Emitted :
        /\ HasStoredRecord(a) /\ StoredValue(a, "error") # None /\ StoredValue(a, "hash") # None
        /\ Fetched(a) /\ airports_out[a].changed
        /\ HasStoredRecord(b) /\ StoredValue(b, "error") # None /\ StoredValue(b, "hash") = None
        /\ Fetched(b) /\ airports_out[b].has_snowtam /\ ~airports_out[b].changed

====
